---- MODULE Spec2Model ----
(***************************************************************************)
(* State-machine model of src/sports_ics.py: the Date Normalizer           *)
(* (iso_to_utc), the Event Translator (the loop body of build_calendar),   *)
(* the League Aggregator (fetch_league_events) and the Cache Manager       *)
(* (get_cached_calendar) with the process-wide CACHE.                      *)
(*                                                                         *)
(* Time is counted in minutes since an arbitrary epoch; a UTC calendar     *)
(* date is the day number  instant \div MinutesPerDay.                     *)
(* A Python None / missing key is the empty tuple, a present value x is    *)
(* the one-element tuple <<x>>.                                            *)
(***************************************************************************)
EXTENDS Integers, Sequences, FiniteSets, TLC

None == <<>>
Some(x) == <<x>>

MinutesPerDay == 24 * 60

\* ------------------------------------------------------------------ bounds
\* Day number of the wall clock in the initial state.
Day0 == 100
\* Longest team schedule the upstream returns.
MaxSched == 2
\* Longest team listing the upstream returns.
MaxTeams == 2
\* Refresh intervals the wall clock may run past Clock0 in the cache
\* specifications.
MaxDays == 1

\* Request-handler threads of the server (app.run serves threaded).
Threads == {"t1", "t2"}

\* --------------------------------------------------------- program constants
\* CACHE's keys, src/sports_ics.py:11-14.
Leagues == {"nfl", "nba"}

\* REFRESH_INTERVAL = timedelta(hours=24), in minutes.
REFRESH_INTERVAL == 24 * 60

\* today - timedelta(days=30)
WINDOW_PAST_DAYS == 30
\* today + timedelta(days=365)
WINDOW_FUTURE_DAYS == 365

\* The league branch of fetch_league_events (default_hours 3 and 2.5 are
\* kept in minutes).
LeagueConfig(l) ==
  IF l = "nfl"
  THEN [sport_path |-> "football", default_minutes |-> 180,
        prodid |-> "-//Homepage Sports Calendar//NFL//EN", uid_prefix |-> "nfl"]
  ELSE [sport_path |-> "basketball", default_minutes |-> 150,
        prodid |-> "-//Homepage Sports Calendar//NBA//EN", uid_prefix |-> "nba"]

\* ------------------------------------------------------------ Date Normalizer
\* A date string is [form, local, off]: form "Z" (trailing Z), "offset"
\* (explicit UTC offset off, in minutes), "naive" (no zone) or "bad" (not an
\* ISO date-time); local is the wall-clock reading written in the string.
DateZ(day, min) == [form |-> "Z", local |-> day * MinutesPerDay + min, off |-> 0]
DateOff(day, min, o) == [form |-> "offset", local |-> day * MinutesPerDay + min, off |-> o]
DateNaive(day, min) == [form |-> "naive", local |-> day * MinutesPerDay + min, off |-> 0]
DateBad == [form |-> "bad", local |-> 0, off |-> 0]

\* iso_to_utc: None when datetime.fromisoformat raises, else the UTC instant.
iso_to_utc(dt_str) ==
  LET s == IF dt_str.form = "Z"
           THEN [form |-> "offset", local |-> dt_str.local, off |-> 0]
           ELSE dt_str
  IN  IF s.form = "bad" THEN None
      ELSE IF s.form = "naive" THEN Some(s.local)
      ELSE Some(s.local - s.off)

\* datetime.date() of a UTC instant.
DateOf(instant) == instant \div MinutesPerDay

\* ------------------------------------------------------------ Event Translator
\* next((t for t in teams if t.get("homeAway") == role), None)
RECURSIVE FirstWithRole(_, _)
FirstWithRole(teams, role) ==
  IF teams = <<>> THEN None
  ELSE IF Head(teams).homeAway = role THEN Some(Head(teams))
  ELSE FirstWithRole(Tail(teams), role)

Skip == [kind |-> "skip"]
Raise == [kind |-> "raise"]

\* Faulty variant of InWindow: the past bound taken exclusive.
InWindowExclusive(start, today) ==
  /\ today - WINDOW_PAST_DAYS < DateOf(start)
  /\ DateOf(start) <= today + WINDOW_FUTURE_DAYS

\* start_window <= start.date() <= end_window
InWindow(start, today) ==
  /\ today - WINDOW_PAST_DAYS <= DateOf(start)
  /\ DateOf(start) <= today + WINDOW_FUTURE_DAYS

\* Faulty variant of MakeEvent: the summary names the home team first.
MakeEventHomeFirst(ev, start, comp, home, away, uid_prefix, default_minutes) ==
  [kind |-> "event",
   summary |-> <<home.team[1], "@", away.team[1]>>,
   dtstart |-> start,
   dtend |-> start + default_minutes,
   uid |-> <<uid_prefix, ev.id[1], "@sports">>,
   location |-> comp.venue,
   description |-> ev.status]

\* The event built by lines 66-87 from a record whose date parsed to start.
MakeEvent(ev, start, comp, home, away, uid_prefix, default_minutes) ==
  [kind |-> "event",
   summary |-> <<away.team[1], "@", home.team[1]>>,
   dtstart |-> start,
   dtend |-> start + default_minutes,
   uid |-> <<uid_prefix, ev.id[1], "@sports">>,
   location |-> comp.venue,
   description |-> ev.status]

\* Faulty variant of TranslateRecord: iso_to_utc called outside the try block, so a
\* date that does not parse raises out of build_calendar.
TranslateRecordNoTry(ev, today, uid_prefix, default_minutes) ==
  LET parsed == IF ev.date = None THEN None ELSE iso_to_utc(ev.date[1])
  IN  IF parsed = None THEN Raise
      ELSE LET start == parsed[1]
           IN  IF ~InWindow(start, today) THEN Skip
               ELSE IF ev.competitions = <<>> THEN Raise
               ELSE LET comp == ev.competitions[1]
                        home == FirstWithRole(comp.competitors, "home")
                        away == FirstWithRole(comp.competitors, "away")
                    IN  IF home = None \/ away = None THEN Skip
                        ELSE IF home[1].team = None \/ away[1].team = None THEN Raise
                        ELSE MakeEvent(ev, start, comp, home[1], away[1],
                                       uid_prefix, default_minutes)

\* Faulty variant of TranslateRecord: the display names are read before the
\* test of line 63, so a record without a home or an away competitor raises.
TranslateRecordNoRoleTest(ev, today, uid_prefix, default_minutes) ==
  LET parsed == IF ev.date = None THEN None ELSE iso_to_utc(ev.date[1])
  IN  IF parsed = None THEN Skip
      ELSE LET start == parsed[1]
           IN  IF ~InWindow(start, today) THEN Skip
               ELSE IF ev.competitions = <<>> THEN Raise
               ELSE LET comp == ev.competitions[1]
                        home == FirstWithRole(comp.competitors, "home")
                        away == FirstWithRole(comp.competitors, "away")
                    IN  IF home = None \/ away = None THEN Raise
                        ELSE IF home[1].team = None \/ away[1].team = None THEN Raise
                        ELSE MakeEvent(ev, start, comp, home[1], away[1],
                                       uid_prefix, default_minutes)

\* One pass of the loop body of build_calendar over the record ev:
\* Skip (continue), Raise (an exception leaves build_calendar) or the event
\* added to the calendar.
TranslateRecord(ev, today, uid_prefix, default_minutes) ==
  LET parsed == IF ev.date = None THEN None ELSE iso_to_utc(ev.date[1])
  IN  IF parsed = None THEN Skip
      ELSE LET start == parsed[1]
           IN  IF ~InWindow(start, today) THEN Skip
               ELSE IF ev.competitions = <<>> THEN Raise
               ELSE LET comp == ev.competitions[1]
                        home == FirstWithRole(comp.competitors, "home")
                        away == FirstWithRole(comp.competitors, "away")
                    IN  IF home = None \/ away = None THEN Skip
                        ELSE IF home[1].team = None \/ away[1].team = None THEN Raise
                        ELSE MakeEvent(ev, start, comp, home[1], away[1],
                                       uid_prefix, default_minutes)

\* cal.to_ical(): the header and the events in the order they were added.
ToIcal(prodid, events) == [prodid |-> prodid, version |-> "2.0", events |-> events]

\* ------------------------------------------------------------ League Aggregator
\* events_by_id is an insertion-ordered dict: a sequence of [id, ev] pairs.
RECURSIVE IndexOfId(_, _)
IndexOfId(m, id) ==
  IF m = <<>> THEN 0
  ELSE IF m[Len(m)].id = id THEN Len(m)
  ELSE IndexOfId(SubSeq(m, 1, Len(m) - 1), id)

\* Faulty variant of DictPut: the record seen first for an id is kept.
DictPutKeepsFirst(m, id, ev) ==
  LET i == IndexOfId(m, id)
  IN  IF i = 0 THEN Append(m, [id |-> id, ev |-> ev])
      ELSE m

\* events_by_id[ev_id] = ev
DictPut(m, id, ev) ==
  LET i == IndexOfId(m, id)
  IN  IF i = 0 THEN Append(m, [id |-> id, ev |-> ev])
      ELSE [m EXCEPT ![i] = [id |-> id, ev |-> ev]]

\* for ev in s_data.get("events", []): lines 139-144
RECURSIVE MergeSchedule(_, _)
MergeSchedule(m, events) ==
  IF events = <<>> THEN m
  ELSE LET ev == Head(events)
       IN  IF ev.id = None THEN MergeSchedule(m, Tail(events))
           ELSE MergeSchedule(DictPut(m, ev.id[1], ev), Tail(events))

\* ------------------------------------------------------------ upstream inputs
\* Competitor lists of the first competition of a game record.
Home(name) == [homeAway |-> "home", team |-> name]
Away(name) == [homeAway |-> "away", team |-> name]
GoodComp ==
  <<[competitors |-> <<Home(Some("Kansas City Chiefs")), Away(Some("Buffalo Bills"))>>,
     venue |-> Some("Arrowhead Stadium")]>>
AwayFirstComp ==
  <<[competitors |-> <<Away(Some("Buffalo Bills")), Home(Some("Kansas City Chiefs"))>>,
     venue |-> None]>>
NoHomeComp == <<[competitors |-> <<Away(Some("Buffalo Bills"))>>, venue |-> None]>>
NoAwayComp == <<[competitors |-> <<Home(Some("Kansas City Chiefs"))>>, venue |-> None]>>
NoNameComp ==
  <<[competitors |-> <<Home(None), Away(Some("Buffalo Bills"))>>, venue |-> None]>>

Rec(id, date, comps, status) ==
  [id |-> id, date |-> date, competitions |-> comps, status |-> status]

\* A date well inside the window: 18:20Z on the day after Day0.
GoodDate == Some(DateZ(Day0 + 1, 18 * 60 + 20))

\* Records whose start lies at the edges of the window, in each date form.
EdgeDates ==
  { DateZ(Day0 - WINDOW_PAST_DAYS - 1, MinutesPerDay - 1),
    DateZ(Day0 - WINDOW_PAST_DAYS, 0),
    DateZ(Day0 + WINDOW_FUTURE_DAYS, MinutesPerDay - 1),
    DateZ(Day0 + WINDOW_FUTURE_DAYS + 1, 0),
    DateOff(Day0 + WINDOW_FUTURE_DAYS, 23 * 60, -120),
    DateOff(Day0 - WINDOW_PAST_DAYS, 60, 120),
    DateOff(Day0 - WINDOW_PAST_DAYS - 1, 23 * 60, -120),
    DateNaive(Day0, 12 * 60),
    DateBad }

EdgeRecords ==
  { Rec(Some("g1"), Some(d), GoodComp, Some("Scheduled")) : d \in EdgeDates }
  \cup { Rec(Some("g1"), GoodDate, c, Some("Scheduled")) :
           c \in {NoHomeComp, NoAwayComp, NoNameComp, <<>>} }
  \cup { Rec(Some("g1"), None, GoodComp, Some("Scheduled")) }

\* Records that also occur in longer schedules.
CoreRecords ==
  { Rec(Some("g1"), GoodDate, GoodComp, Some("Scheduled")),
    Rec(Some("g1"), Some(DateNaive(Day0 + 2, 60)), AwayFirstComp, None),
    Rec(None, GoodDate, GoodComp, Some("Scheduled")),
    Rec(Some("g2"), Some(DateBad), GoodComp, Some("Scheduled")) }

SeqsUpTo(S, n) == UNION { [1..k -> S] : k \in 0..n }

SchedFail == [kind |-> "fail", events |-> <<>>]
SchedOk(evs) == [kind |-> "ok", events |-> evs]

\* What team T1's schedule endpoint may answer.
SchedulesA ==
  {SchedFail}
  \cup { SchedOk(s) : s \in SeqsUpTo(CoreRecords, MaxSched) }
  \cup { SchedOk(<<r>>) : r \in EdgeRecords }

\* What team T2's schedule endpoint may answer.
SchedulesB ==
  { SchedFail,
    SchedOk(<<>>),
    SchedOk(<<Rec(Some("g1"), GoodDate, GoodComp, Some("Final"))>>),
    SchedOk(<<Rec(Some("g2"), GoodDate, GoodComp, Some("Scheduled"))>>),
    SchedOk(<<Rec(Some("g2"), GoodDate, <<>>, Some("Scheduled"))>>),
    SchedOk(<<Rec(Some("g1"), GoodDate, GoodComp, Some("Final")),
              Rec(Some("g2"), GoodDate, <<>>, Some("Scheduled"))>>),
    SchedOk(<<Rec(Some("g2"), Some(DateZ(Day0, 0)), AwayFirstComp, None),
              Rec(Some("g1"), GoodDate, GoodComp, Some("Final"))>>) }

\* Entries of the team listing: team_info.get("id") present or not.
TeamEntries == { [id |-> Some("T1")], [id |-> Some("T2")], [id |-> None] }

ListFail == [kind |-> "fail", teams |-> <<>>]
ListMalformed == [kind |-> "malformed", teams |-> <<>>]
ListOk(ts) == [kind |-> "ok", teams |-> ts]

Listings ==
  {ListFail, ListMalformed} \cup { ListOk(ts) : ts \in SeqsUpTo(TeamEntries, MaxTeams) }

MkWorld(l, a, b) == [listing |-> l, T1 |-> a, T2 |-> b]

\* The upstream answers of the aggregation specification.
AggWorlds == { MkWorld(l, a, b) : l \in Listings, a \in SchedulesA, b \in SchedulesB }

\* The upstream answers of the cache specifications.
\* The upstream answers of the concurrent specification: the listing fails,
\* or one team with one game is listed after an entry without an id.
ConcWorlds ==
  { MkWorld(ListFail, SchedFail, SchedFail),
    MkWorld(ListOk(<<[id |-> None], [id |-> Some("T1")]>>),
            SchedOk(<<Rec(Some("g1"), GoodDate, GoodComp, Some("Scheduled"))>>), SchedFail) }

\* The upstream answers of the sequential cache specification: also a
\* malformed listing, a team whose schedule request fails, and a record on
\* which build_calendar raises.
CacheWorlds ==
  ConcWorlds \cup
  { MkWorld(ListMalformed, SchedFail, SchedFail),
    MkWorld(ListOk(<<[id |-> Some("T2")]>>), SchedFail, SchedFail),
    MkWorld(ListOk(<<[id |-> Some("T1")]>>),
            SchedOk(<<Rec(Some("g1"), GoodDate, <<>>, Some("Scheduled"))>>), SchedFail) }

\* ------------------------------------------------------------------- state
VARIABLES
  clock,          \* datetime.now(timezone.utc), in minutes
  world,          \* what the upstream currently answers
  CACHE,          \* CACHE[league] = [last_fetch, ical_bytes]
  pc,             \* pc[t]: where thread t stands in get_cached_calendar
  league,         \* the argument of the call thread t serves
  now,            \* line 162
  teams,          \* line 118
  ti,             \* position of the loop of line 123
  events_by_id,   \* line 121
  today,          \* line 43
  bi,             \* position of the loop of line 47
  cal,            \* the events added to cal so far (line 89)
  ical_bytes,     \* line 174
  ret,            \* the value the call returned
  nList,          \* team-listing requests issued by the call
  nSched          \* team-schedule requests issued by the call

shared == <<clock, world, CACHE>>
call == <<pc, league, now, ret, nList, nSched>>
fetch == <<teams, ti, events_by_id>>
build == <<today, bi, cal, ical_bytes>>
vars == <<shared, call, fetch, build>>

\* The wall clock of the initial state: 10:00 UTC on Day0.
Clock0 == Day0 * MinutesPerDay + 10 * 60

\* The clock advances by exactly the refresh interval or by a minute more
\* than it; in the sequential specification also by half of it.
ConcSteps == { REFRESH_INTERVAL, REFRESH_INTERVAL + 1 }
TickSteps == ConcSteps \cup { REFRESH_INTERVAL \div 2 }

EmptyEntry == [last_fetch |-> None, ical_bytes |-> None]

InitLocals ==
  /\ pc = [t \in Threads |-> "idle"]
  /\ league = [t \in Threads |-> "nfl"]
  /\ now = [t \in Threads |-> 0]
  /\ teams = [t \in Threads |-> <<>>]
  /\ ti = [t \in Threads |-> 1]
  /\ events_by_id = [t \in Threads |-> <<>>]
  /\ today = [t \in Threads |-> 0]
  /\ bi = [t \in Threads |-> 1]
  /\ cal = [t \in Threads |-> <<>>]
  /\ ical_bytes = [t \in Threads |-> None]
  /\ ret = [t \in Threads |-> None]
  /\ nList = [t \in Threads |-> 0]
  /\ nSched = [t \in Threads |-> 0]

\* The module-level CACHE of lines 11-14.
InitCache == CACHE = [l \in Leagues |-> EmptyEntry]

Init ==
  /\ clock = Clock0
  /\ world \in ConcWorlds
  /\ InitCache
  /\ InitLocals

InitSeq ==
  /\ clock = Clock0
  /\ world \in CacheWorlds
  /\ InitCache
  /\ InitLocals

InitAgg ==
  /\ clock = Clock0
  /\ world \in AggWorlds
  /\ InitCache
  /\ InitLocals

\* ------------------------------------------------------------ Cache Manager
\* Faulty variant of NeedsRefresh: an entry exactly REFRESH_INTERVAL old is refreshed.
NeedsRefreshAtBoundary(entry, n) ==
  \/ entry.last_fetch = None
  \/ entry.ical_bytes = None
  \/ n - entry.last_fetch[1] >= REFRESH_INTERVAL

\* The test of lines 165-169: TRUE when the call goes on to refresh.
NeedsRefresh(entry, n) ==
  \/ entry.last_fetch = None
  \/ entry.ical_bytes = None
  \/ n - entry.last_fetch[1] > REFRESH_INTERVAL

\* A route handler calls get_cached_calendar(l): lines 162-163.
Begin(t, l) ==
  /\ pc[t] = "idle"
  /\ pc' = [pc EXCEPT ![t] = "check"]
  /\ league' = [league EXCEPT ![t] = l]
  /\ now' = [now EXCEPT ![t] = clock]
  /\ UNCHANGED <<shared, ret, nList, nSched, fetch, build>>

\* Faulty variant of Check: a call waits at the freshness test while another
\* call refreshes the same league.
CheckExclusive(t) ==
  /\ pc[t] = "check"
  /\ \A u \in Threads \ {t} :
       ~(league[u] = league[t] /\ pc[u] \in {"fetch", "teams", "build", "store", "stamp"})
  /\ pc' = [pc EXCEPT ![t] =
              IF NeedsRefresh(CACHE[league[t]], now[t]) THEN "fetch" ELSE "fresh"]
  /\ UNCHANGED <<shared, league, now, ret, nList, nSched, fetch, build>>

\* Lines 165-169.
Check(t) ==
  /\ pc[t] = "check"
  /\ pc' = [pc EXCEPT ![t] =
              IF NeedsRefresh(CACHE[league[t]], now[t]) THEN "fetch" ELSE "fresh"]
  /\ UNCHANGED <<shared, league, now, ret, nList, nSched, fetch, build>>

\* Line 171: return league_cache["ical_bytes"].
ReturnFresh(t) ==
  /\ pc[t] = "fresh"
  /\ ret' = [ret EXCEPT ![t] = CACHE[league[t]].ical_bytes]
  /\ pc' = [pc EXCEPT ![t] = "returned_fresh"]
  /\ UNCHANGED <<shared, league, now, nList, nSched, fetch, build>>

\* Faulty variant of FetchTeams: a listing that failed or is malformed is taken for
\* an empty team list.
FetchTeamsSwallows(t) ==
  /\ pc[t] = "fetch"
  /\ nList' = [nList EXCEPT ![t] = @ + 1]
  /\ teams' = [teams EXCEPT ![t] = world.listing.teams]
  /\ ti' = [ti EXCEPT ![t] = 1]
  /\ events_by_id' = [events_by_id EXCEPT ![t] = <<>>]
  /\ pc' = [pc EXCEPT ![t] = "teams"]
  /\ UNCHANGED <<shared, league, now, ret, nSched, build>>

\* Lines 112-121: the team-listing request. A failed request and a response
\* without the sports/leagues/teams path both raise out of fetch_league_events.
FetchTeams(t) ==
  /\ pc[t] = "fetch"
  /\ nList' = [nList EXCEPT ![t] = @ + 1]
  /\ IF world.listing.kind = "ok"
     THEN /\ teams' = [teams EXCEPT ![t] = world.listing.teams]
          /\ ti' = [ti EXCEPT ![t] = 1]
          /\ events_by_id' = [events_by_id EXCEPT ![t] = <<>>]
          /\ pc' = [pc EXCEPT ![t] = "teams"]
     ELSE /\ pc' = [pc EXCEPT ![t] = "except"]
          /\ UNCHANGED fetch
  /\ UNCHANGED <<shared, league, now, ret, nSched, build>>

\* Lines 124-127: a listing entry without a team id is passed over.
SkipTeam(t) ==
  /\ pc[t] = "teams"
  /\ ti[t] <= Len(teams[t])
  /\ teams[t][ti[t]].id = None
  /\ ti' = [ti EXCEPT ![t] = @ + 1]
  /\ UNCHANGED <<shared, call, teams, events_by_id, build>>

\* Lines 129-144: one team's schedule request and the merge of its events.
FetchSchedule(t) ==
  /\ pc[t] = "teams"
  /\ ti[t] <= Len(teams[t])
  /\ teams[t][ti[t]].id # None
  /\ LET s_data == world[teams[t][ti[t]].id[1]]
     IN  events_by_id' = [events_by_id EXCEPT ![t] =
           IF s_data.kind = "ok" THEN MergeSchedule(@, s_data.events) ELSE @]
  /\ nSched' = [nSched EXCEPT ![t] = @ + 1]
  /\ ti' = [ti EXCEPT ![t] = @ + 1]
  /\ UNCHANGED <<shared, pc, league, now, ret, nList, teams, build>>

\* Lines 146-148 and 36-45: the loop over the teams is over, build_calendar starts.
BuildStart(t) ==
  /\ pc[t] = "teams"
  /\ ti[t] > Len(teams[t])
  /\ today' = [today EXCEPT ![t] = DateOf(clock)]
  /\ bi' = [bi EXCEPT ![t] = 1]
  /\ cal' = [cal EXCEPT ![t] = <<>>]
  /\ pc' = [pc EXCEPT ![t] = "build"]
  /\ UNCHANGED <<shared, league, now, ret, nList, nSched, fetch, ical_bytes>>

\* Lines 47-89: the loop body for the next record of events_by_id.
Translate(t) ==
  /\ pc[t] = "build"
  /\ bi[t] <= Len(events_by_id[t])
  /\ LET cfg == LeagueConfig(league[t])
         r == TranslateRecord(events_by_id[t][bi[t]].ev, today[t],
                              cfg.uid_prefix, cfg.default_minutes)
     IN  IF r = Raise
         THEN /\ pc' = [pc EXCEPT ![t] = "except"]
              /\ UNCHANGED <<bi, cal>>
         ELSE /\ bi' = [bi EXCEPT ![t] = @ + 1]
              /\ cal' = [cal EXCEPT ![t] = IF r = Skip THEN @ ELSE Append(@, r)]
              /\ UNCHANGED pc
  /\ UNCHANGED <<shared, league, now, ret, nList, nSched, fetch, today, ical_bytes>>

\* Lines 91, 155 and 174: cal.to_ical() comes back to get_cached_calendar.
Serialize(t) ==
  /\ pc[t] = "build"
  /\ bi[t] > Len(events_by_id[t])
  /\ ical_bytes' = [ical_bytes EXCEPT ![t] =
                      Some(ToIcal(LeagueConfig(league[t]).prodid, cal[t]))]
  /\ pc' = [pc EXCEPT ![t] = "store"]
  /\ UNCHANGED <<shared, league, now, ret, nList, nSched, fetch, today, bi, cal>>

\* Line 175: league_cache["ical_bytes"] = ical_bytes.
StoreBytes(t) ==
  /\ pc[t] = "store"
  /\ CACHE' = [CACHE EXCEPT ![league[t]].ical_bytes = ical_bytes[t]]
  /\ pc' = [pc EXCEPT ![t] = "stamp"]
  /\ UNCHANGED <<clock, world, league, now, ret, nList, nSched, fetch, build>>

\* Faulty variant of StoreStamp: the timestamp is not written.
StoreStampKeepsOld(t) ==
  /\ pc[t] = "stamp"
  /\ ret' = [ret EXCEPT ![t] = ical_bytes[t]]
  /\ pc' = [pc EXCEPT ![t] = "returned_new"]
  /\ UNCHANGED <<shared, league, now, nList, nSched, fetch, build>>

\* Faulty variant of StoreStamp: one timestamp is kept for all leagues.
StoreStampAllLeagues(t) ==
  /\ pc[t] = "stamp"
  /\ CACHE' = [l \in Leagues |-> [CACHE[l] EXCEPT !.last_fetch = Some(now[t])]]
  /\ ret' = [ret EXCEPT ![t] = ical_bytes[t]]
  /\ pc' = [pc EXCEPT ![t] = "returned_new"]
  /\ UNCHANGED <<clock, world, league, now, nList, nSched, fetch, build>>

\* Lines 176-178: league_cache["last_fetch"] = now; return ical_bytes.
StoreStamp(t) ==
  /\ pc[t] = "stamp"
  /\ CACHE' = [CACHE EXCEPT ![league[t]].last_fetch = Some(now[t])]
  /\ ret' = [ret EXCEPT ![t] = ical_bytes[t]]
  /\ pc' = [pc EXCEPT ![t] = "returned_new"]
  /\ UNCHANGED <<clock, world, league, now, nList, nSched, fetch, build>>

\* Faulty variant of Except: a failed refresh drops the entry before answering.
ExceptDropsEntry(t) ==
  /\ pc[t] = "except"
  /\ CACHE' = [CACHE EXCEPT ![league[t]] = [last_fetch |-> None, ical_bytes |-> None]]
  /\ IF CACHE[league[t]].ical_bytes # None
     THEN /\ ret' = [ret EXCEPT ![t] = CACHE[league[t]].ical_bytes]
          /\ pc' = [pc EXCEPT ![t] = "returned_stale"]
     ELSE /\ pc' = [pc EXCEPT ![t] = "raised"]
          /\ UNCHANGED ret
  /\ UNCHANGED <<clock, world, league, now, nList, nSched, fetch, build>>

\* Faulty variant of Except: the cached bytes are returned without the None test.
ExceptReturnsNone(t) ==
  /\ pc[t] = "except"
  /\ ret' = [ret EXCEPT ![t] = CACHE[league[t]].ical_bytes]
  /\ pc' = [pc EXCEPT ![t] = "returned_stale"]
  /\ UNCHANGED <<shared, league, now, nList, nSched, fetch, build>>

\* Faulty variant of Except: the error is propagated whatever the entry holds.
ExceptAlwaysRaises(t) ==
  /\ pc[t] = "except"
  /\ pc' = [pc EXCEPT ![t] = "raised"]
  /\ UNCHANGED <<shared, league, now, ret, nList, nSched, fetch, build>>

\* Lines 179-186: serve the cached bytes if there are any, else re-raise.
Except(t) ==
  /\ pc[t] = "except"
  /\ IF CACHE[league[t]].ical_bytes # None
     THEN /\ ret' = [ret EXCEPT ![t] = CACHE[league[t]].ical_bytes]
          /\ pc' = [pc EXCEPT ![t] = "returned_stale"]
     ELSE /\ pc' = [pc EXCEPT ![t] = "raised"]
          /\ UNCHANGED ret
  /\ UNCHANGED <<shared, league, now, nList, nSched, fetch, build>>

\* The return statements of lines 171, 178 and 184.
Returned == {"returned_fresh", "returned_new", "returned_stale"}

\* Lines 189-198: the route handler sends its response; the call's locals die.
Finish(t) ==
  /\ pc[t] \in Returned \cup {"raised"}
  /\ pc' = [pc EXCEPT ![t] = "idle"]
  /\ league' = [league EXCEPT ![t] = "nfl"]
  /\ now' = [now EXCEPT ![t] = 0]
  /\ ret' = [ret EXCEPT ![t] = None]
  /\ nList' = [nList EXCEPT ![t] = 0]
  /\ nSched' = [nSched EXCEPT ![t] = 0]
  /\ teams' = [teams EXCEPT ![t] = <<>>]
  /\ ti' = [ti EXCEPT ![t] = 1]
  /\ events_by_id' = [events_by_id EXCEPT ![t] = <<>>]
  /\ today' = [today EXCEPT ![t] = 0]
  /\ bi' = [bi EXCEPT ![t] = 1]
  /\ cal' = [cal EXCEPT ![t] = <<>>]
  /\ ical_bytes' = [ical_bytes EXCEPT ![t] = None]
  /\ UNCHANGED shared

\* ------------------------------------------------------------- environment
\* Time passes.
Tick(D) ==
  /\ \E d \in D :
       /\ clock + d <= Clock0 + MaxDays * REFRESH_INTERVAL + 1
       /\ clock' = clock + d
  /\ UNCHANGED <<world, CACHE, call, fetch, build>>

\* The upstream starts to answer differently.
UpstreamChange(W) ==
  /\ \E w \in W \ {world} : world' = w
  /\ UNCHANGED <<clock, CACHE, call, fetch, build>>

\* The steps of a call in flight.
Step(t) ==
  \/ Check(t)
  \/ ReturnFresh(t)
  \/ FetchTeams(t)
  \/ SkipTeam(t)
  \/ FetchSchedule(t)
  \/ BuildStart(t)
  \/ Translate(t)
  \/ Serialize(t)
  \/ StoreBytes(t)
  \/ StoreStamp(t)
  \/ Except(t)
  \/ Finish(t)

AllIdle == \A t \in Threads : pc[t] = "idle"

\* Threads serve requests concurrently.
Next ==
  \/ \E t \in Threads, l \in Leagues : Begin(t, l)
  \/ \E t \in Threads : Step(t)
  \/ Tick(ConcSteps)
  \/ UpstreamChange(ConcWorlds)

Spec == Init /\ [][Next]_vars

\* One request is served at a time.
NextSeq ==
  \/ \E t \in Threads, l \in Leagues : AllIdle /\ Begin(t, l)
  \/ \E t \in Threads : Step(t)
  \/ Tick(TickSteps)
  \/ UpstreamChange(CacheWorlds)

SpecSeq == InitSeq /\ [][NextSeq]_vars

\* One thread aggregates against a fixed upstream at a fixed time.
NextAgg ==
  \/ \E l \in Leagues : Begin("t1", l)
  \/ Step("t1")

SpecAgg == InitAgg /\ [][NextAgg]_vars

\* ================================================================ claims
\* Vocabulary of the claims: the states of a cache entry (spec 4.4).
Populated(e) == e.last_fetch # None /\ e.ical_bytes # None
EMPTY(e) == e.last_fetch = None /\ e.ical_bytes = None
FRESH(e, n) == Populated(e) /\ n - e.last_fetch[1] <= REFRESH_INTERVAL
STALE(e, n) == Populated(e) /\ n - e.last_fetch[1] > REFRESH_INTERVAL

\* Thread t takes a step of its call.
Moves(t) == pc'[t] # pc[t] \/ ti'[t] # ti[t] \/ bi'[t] # bi[t]

\* Positions of a refresh attempt that has not succeeded (yet).
Attempting == {"check", "fetch", "teams", "build", "except"}

\* C1 (FRESH hit): a call that finds its entry populated and at most
\* REFRESH_INTERVAL old (the boundary included) takes the fresh path, issues
\* no listing and no schedule request, leaves CACHE as it is and returns the
\* bytes the entry holds.
C1_FreshHit ==
  [][\A t \in Threads :
       LET e == CACHE[league[t]]
       IN  /\ (pc[t] = "check" /\ Moves(t) /\ FRESH(e, now[t]))
                => (pc'[t] = "fresh" /\ CACHE' = CACHE)
           /\ (pc[t] = "fresh" /\ Moves(t))
                => /\ FRESH(e, now[t])
                   /\ pc'[t] = "returned_fresh"
                   /\ ret'[t] = e.ical_bytes
                   /\ ret'[t] # None
                   /\ CACHE' = CACHE
                   /\ nList'[t] = 0 /\ nSched'[t] = 0]_vars

\* A call returned from the fresh path on an entry exactly 24h old.
C1_Witness ==
  \E t \in Threads :
    /\ pc[t] = "returned_fresh"
    /\ ret[t] # None
    /\ now[t] - CACHE[league[t]].last_fetch[1] = REFRESH_INTERVAL

\* C2 (STALE fallback): while a call on a STALE entry attempts its refresh
\* the entry is left as it is, and when the refresh has failed the call
\* returns the bytes the entry holds, without raising and without touching
\* last_fetch or ical_bytes.
C2_StaleFallback ==
  [][\A t \in Threads :
       LET e == CACHE[league[t]]
       IN  /\ (pc[t] \in Attempting /\ STALE(e, now[t])) => CACHE' = CACHE
           /\ (pc[t] = "check" /\ Moves(t) /\ STALE(e, now[t])) => pc'[t] = "fetch"
           /\ (pc[t] = "except" /\ Moves(t) /\ STALE(e, now[t]))
                => /\ pc'[t] = "returned_stale"
                   /\ ret'[t] = e.ical_bytes
                   /\ ret'[t] # None]_vars

\* A call whose refresh failed returned the bytes of its STALE entry.
C2_Witness ==
  \E t \in Threads :
    /\ pc[t] = "returned_stale"
    /\ STALE(CACHE[league[t]], now[t])
    /\ ret[t] = CACHE[league[t]].ical_bytes
    /\ nList[t] = 1

\* C3 (EMPTY failure): a call on an EMPTY entry attempts a refresh, and when
\* the refresh fails the call raises (it returns nothing) and the entry is
\* still EMPTY.
C3_EmptyFailure ==
  [][\A t \in Threads :
       LET e == CACHE[league[t]]
       IN  /\ (pc[t] \in Attempting /\ EMPTY(e)) => CACHE' = CACHE
           /\ (pc[t] = "check" /\ Moves(t) /\ EMPTY(e)) => pc'[t] = "fetch"
           /\ (pc[t] = "except" /\ Moves(t) /\ EMPTY(e))
                => /\ pc'[t] = "raised"
                   /\ ret'[t] = None
                   /\ EMPTY(CACHE'[league[t]])]_vars

\* A call raised on an entry that is still EMPTY after one listing request.
C3_Witness ==
  \E t \in Threads :
    /\ pc[t] = "raised"
    /\ EMPTY(CACHE[league[t]])
    /\ nList[t] = 1

\* C4 (staleness over unavailability): under any interleaving, a field of an
\* entry that is set is never cleared again, a call that returns returns
\* bytes, and a call raises only from a failed refresh of an entry that is
\* EMPTY at that moment.
C4_StalenessOverUnavailability ==
  [][/\ \A l \in Leagues :
          /\ CACHE[l].ical_bytes # None => CACHE'[l].ical_bytes # None
          /\ CACHE[l].last_fetch # None => CACHE'[l].last_fetch # None
     /\ \A t \in Threads :
          /\ (pc'[t] = "raised" /\ pc[t] # "raised")
               => (pc[t] = "except" /\ EMPTY(CACHE[league[t]]))
          /\ (pc[t] = "except" /\ Moves(t) /\ CACHE[league[t]].ical_bytes # None)
               => pc'[t] \in Returned
          /\ (pc'[t] \in Returned /\ pc[t] \notin Returned) => ret'[t] # None]_vars

\* A call whose refresh failed was answered from a populated entry.
C4_Witness ==
  \E t \in Threads :
    /\ pc[t] = "returned_stale"
    /\ ret[t] # None
    /\ Populated(CACHE[league[t]])

\* C5 (successful refresh): only a call that found its entry EMPTY or STALE
\* stores; the store overwrites ical_bytes with the document the call built
\* and last_fetch with the call's now, the call returns that document, and
\* the entry is FRESH at the call's now.
C5_SuccessfulRefresh ==
  [][\A t \in Threads :
       LET l == league[t]
       IN  /\ (pc[t] = "store" /\ Moves(t))
                => /\ EMPTY(CACHE[l]) \/ STALE(CACHE[l], now[t])
                   /\ ical_bytes[t] = Some(ToIcal(LeagueConfig(l).prodid, cal[t]))
                   /\ pc'[t] = "stamp"
                   /\ CACHE'[l].ical_bytes = ical_bytes[t]
           /\ (pc[t] = "stamp" /\ Moves(t))
                => /\ pc'[t] = "returned_new"
                   /\ CACHE'[l] = [last_fetch |-> Some(now[t]),
                                   ical_bytes |-> ical_bytes[t]]
                   /\ ret'[t] = ical_bytes[t]
                   /\ ret'[t] # None
                   /\ FRESH(CACHE'[l], now[t])]_vars

\* A refresh of a STALE entry has overwritten the bytes with the document it
\* built and is about to overwrite the timestamp.
C5_Witness ==
  \E t \in Threads :
    /\ pc[t] = "stamp"
    /\ STALE(CACHE[league[t]], now[t])
    /\ CACHE[league[t]].ical_bytes = ical_bytes[t]

\* ---------------------------------------------------- aggregation claims
\* Vocabulary of the claims about game records (spec 3 and 4.2).
\* The date string of the record is a valid date-time.
Parses(ev) == ev.date # None /\ ev.date[1].form # "bad"

\* The UTC instant a valid date string denotes.
UtcStart(ev) ==
  IF ev.date[1].form = "offset"
  THEN ev.date[1].local - ev.date[1].off
  ELSE ev.date[1].local

\* The UTC calendar date of the start lies in [day - 30, day + 365].
InsideWindow(ev, day) ==
  /\ day - WINDOW_PAST_DAYS <= UtcStart(ev) \div MinutesPerDay
  /\ UtcStart(ev) \div MinutesPerDay <= day + WINDOW_FUTURE_DAYS

\* The first competition names a home and an away competitor.
HasHomeAndAway(ev) ==
  /\ ev.competitions # <<>>
  /\ \E i \in 1..Len(ev.competitions[1].competitors) :
       ev.competitions[1].competitors[i].homeAway = "home"
  /\ \E i \in 1..Len(ev.competitions[1].competitors) :
       ev.competitions[1].competitors[i].homeAway = "away"

\* Both participants are resolvable: present and carrying a display name.
Resolvable(ev) ==
  /\ HasHomeAndAway(ev)
  /\ \A i \in 1..Len(ev.competitions[1].competitors) :
       ev.competitions[1].competitors[i].team # None

\* No skip condition applies to the record on the day given.
Translatable(ev, day) == Parses(ev) /\ InsideWindow(ev, day) /\ Resolvable(ev)

\* The UID of the event of game g in league l.
UidOf(l, g) == <<l, g, "@sports">>

\* Thread t is at the loop body of build_calendar, about to translate a record.
AtRecord(t) == pc[t] = "build" /\ bi[t] <= Len(events_by_id[t])
CurrentRecord(t) == events_by_id[t][bi[t]].ev

\* Thread t holds the document fetch_league_events returned.
HasDocument(t) == pc[t] \in {"store", "stamp", "returned_new"}
Document(t) == ical_bytes[t][1]

\* The translation step of t skipped its record: nothing added, loop goes on.
Skipped(t) == pc'[t] = "build" /\ bi'[t] = bi[t] + 1 /\ cal'[t] = cal[t]

\* The translation step of t added exactly one event, that of its record.
AddedOne(t) ==
  /\ pc'[t] = "build" /\ bi'[t] = bi[t] + 1
  /\ Len(cal'[t]) = Len(cal[t]) + 1
  /\ SubSeq(cal'[t], 1, Len(cal[t])) = cal[t]
  /\ cal'[t][Len(cal'[t])].uid = UidOf(league[t], CurrentRecord(t).id[1])
  /\ cal'[t][Len(cal'[t])].dtstart = UtcStart(CurrentRecord(t))

\* C7 (window filter): translating a record whose start, as a UTC calendar
\* date, lies outside [today - 30, today + 365] adds no event; translating
\* one inside (bounds included) whose participants are resolvable adds
\* exactly one; and no event outside the window is in a document.
C7_WindowFilter ==
  [][\A t \in Threads :
       /\ (AtRecord(t) /\ Moves(t) /\ Parses(CurrentRecord(t)))
            => /\ ~InsideWindow(CurrentRecord(t), DateOf(clock)) => Skipped(t)
               /\ (InsideWindow(CurrentRecord(t), DateOf(clock))
                     /\ Resolvable(CurrentRecord(t))) => AddedOne(t)
       /\ HasDocument(t)'
            => \A i \in 1..Len(Document(t)'.events) :
                 /\ DateOf(clock) - WINDOW_PAST_DAYS
                      <= Document(t)'.events[i].dtstart \div MinutesPerDay
                 /\ Document(t)'.events[i].dtstart \div MinutesPerDay
                      <= DateOf(clock) + WINDOW_FUTURE_DAYS]_vars

\* A document holds an event that starts on the first day of the window.
C7_Witness ==
  \E t \in Threads :
    /\ HasDocument(t)
    /\ \E i \in 1..Len(Document(t).events) :
         Document(t).events[i].dtstart \div MinutesPerDay
           = DateOf(clock) - WINDOW_PAST_DAYS

\* build_calendar as a function of the retained records: Raise, or the
\* events of the calendar.
RECURSIVE BuildAll(_, _, _, _)
BuildAll(m, day, uid_prefix, default_minutes) ==
  IF m = <<>> THEN [kind |-> "ok", events |-> <<>>]
  ELSE LET r == TranslateRecord(Head(m).ev, day, uid_prefix, default_minutes)
           rest == BuildAll(Tail(m), day, uid_prefix, default_minutes)
       IN  IF r = Raise \/ rest = Raise THEN Raise
           ELSE IF r = Skip THEN rest
           ELSE [kind |-> "ok", events |-> <<r>> \o rest.events]

\* The retained records without those whose date does not parse.
WithoutUnparseable(m) == SelectSeq(m, LAMBDA x : Parses(x.ev))

\* What build_calendar gives for t's records once the unparseable are removed.
AsIfAbsent(t) ==
  BuildAll(WithoutUnparseable(events_by_id[t]), today[t],
           LeagueConfig(league[t]).uid_prefix, LeagueConfig(league[t]).default_minutes)

\* C10 (unparseable date): translating a record whose date does not parse
\* adds no event and goes on with the next record, and build_calendar ends
\* as it would without the unparseable records: with the same events, or
\* raising where it would raise without them.
C10_UnparseableDate ==
  [][\A t \in Threads :
       /\ (AtRecord(t) /\ Moves(t) /\ ~Parses(CurrentRecord(t))) => Skipped(t)
       /\ (pc[t] = "build" /\ pc'[t] = "store")
            => /\ AsIfAbsent(t) # Raise
               /\ Document(t)'.events = AsIfAbsent(t).events
       /\ (pc[t] = "build" /\ pc'[t] = "except") => AsIfAbsent(t) = Raise]_vars

\* A document was built from records one of which has a malformed date
\* string, and it holds the event of another record.
C10_Witness ==
  \E t \in Threads :
    /\ HasDocument(t)
    /\ \E i \in 1..Len(events_by_id[t]) :
         /\ events_by_id[t][i].ev.date # None
         /\ events_by_id[t][i].ev.date[1].form = "bad"
    /\ Len(Document(t).events) >= 1

\* C9 (listing failure): when the listing request fails or its response is
\* malformed, the call goes to the except clause of get_cached_calendar
\* having issued one listing request and no schedule request, and from there
\* it ends without another request.
C9_ListingFailure ==
  [][\A t \in Threads :
       /\ (pc[t] = "fetch" /\ Moves(t) /\ world.listing.kind # "ok")
            => /\ pc'[t] = "except"
               /\ nList'[t] = 1
               /\ nSched'[t] = 0
       /\ (pc[t] = "except" /\ Moves(t))
            => /\ pc'[t] \in {"returned_stale", "raised"}
               /\ nList'[t] = nList[t]
               /\ nSched'[t] = nSched[t]
       /\ nList'[t] <= 1]_vars

\* A call stands in the except clause after a malformed listing.
C9_Witness ==
  \E t \in Threads :
    /\ pc[t] = "except"
    /\ world.listing.kind = "malformed"
    /\ nList[t] = 1
    /\ nSched[t] = 0

\* The ids of the teams the listing names.
ListedTeams(w) ==
  { w.listing.teams[i].id[1] :
      i \in { j \in 1..Len(w.listing.teams) : w.listing.teams[j].id # None } }

\* The game identifiers in the schedule a team's request returned.
GameIds(w, team) ==
  IF w[team].kind # "ok" THEN {}
  ELSE { w[team].events[i].id[1] :
           i \in { j \in 1..Len(w[team].events) : w[team].events[j].id # None } }

\* The game identifiers that two different listed teams have in common.
SharedGames(w) ==
  { g \in UNION { GameIds(w, a) : a \in ListedTeams(w) } :
      \E a, b \in ListedTeams(w) : a # b /\ g \in GameIds(w, a) \cap GameIds(w, b) }

\* The record events_by_id retains for game g.
Retained(t, g) ==
  events_by_id[t][CHOOSE i \in 1..Len(events_by_id[t]) : events_by_id[t][i].id = g].ev

\* fetch_league_events is over for t: it returned a document, or it raised
\* after the listing had succeeded.
AggregationOver(t) ==
  \/ HasDocument(t)
  \/ pc[t] \in {"except", "raised"} /\ world.listing.kind = "ok"

\* The number of events for game g in what the aggregation of t returned.
Produced(t, g) ==
  IF HasDocument(t)
  THEN Cardinality({ i \in 1..Len(Document(t).events) :
                       Document(t).events[i].uid = UidOf(league[t], g) })
  ELSE 0

\* C6 (deduplication), as claimed: once the aggregation is over, a game
\* identifier that two different teams' schedules share has exactly one
\* event in the aggregated document if no skip condition applies to its
\* record, and never more than one.
C6_Deduplication ==
  \A t \in Threads :
    AggregationOver(t)
      => \A g \in SharedGames(world) :
           /\ Produced(t, g) <= 1
           /\ Translatable(Retained(t, g), today[t]) => Produced(t, g) = 1

\* C6 restricted to the aggregations in which build_calendar returns.
C6_DeduplicationWhenBuilt ==
  \A t \in Threads :
    HasDocument(t)
      => \A g \in SharedGames(world) :
           /\ Produced(t, g) <= 1
           /\ Translatable(Retained(t, g), today[t]) => Produced(t, g) = 1

\* The schedule requests a listing calls for: one per entry with an id.
RequestsDue(w) ==
  Cardinality({ j \in 1..Len(w.listing.teams) : w.listing.teams[j].id # None })

\* The document of t holds the games of every team whose request succeeded.
HoldsFetchedGames(t) ==
  \A team \in ListedTeams(world) : \A g \in GameIds(world, team) :
    Translatable(Retained(t, g), today[t]) => Produced(t, g) = 1

\* C8 (partial-failure tolerance), as claimed: whichever schedule requests
\* fail, once the listing has succeeded the aggregation does not raise,
\* every listed team's schedule is requested, and the document holds the
\* games of every team whose request succeeded.
C8_PartialFailureTolerance ==
  \A t \in Threads :
    /\ (pc[t] \in {"except", "raised"}) => world.listing.kind # "ok"
    /\ (pc[t] = "build" \/ HasDocument(t)) => nSched[t] = RequestsDue(world)
    /\ HasDocument(t) => HoldsFetchedGames(t)

\* C8 restricted to the aggregations in which build_calendar returns.
C8_ToleranceWhenBuilt ==
  \A t \in Threads :
    /\ (pc[t] = "build" \/ HasDocument(t)) => nSched[t] = RequestsDue(world)
    /\ HasDocument(t) => HoldsFetchedGames(t)

\* ------------------------------------------------------- translator claims
\* The first competition of the record exists and lacks a competitor tagged
\* "home" or lacks one tagged "away".
MissingCompetitor(ev) == ev.competitions # <<>> /\ ~HasHomeAndAway(ev)

\* The retained records without those that miss a competitor.
WithoutMissingCompetitor(m) == SelectSeq(m, LAMBDA x : ~MissingCompetitor(x.ev))

\* What build_calendar gives for t's records once those that miss a
\* competitor are removed.
AsIfNoneMissing(t) ==
  BuildAll(WithoutMissingCompetitor(events_by_id[t]), today[t],
           LeagueConfig(league[t]).uid_prefix, LeagueConfig(league[t]).default_minutes)

\* C11 (missing competitor): translating a record whose first competition
\* lacks a home or an away competitor adds no event, does not raise and goes
\* on with the next record; build_calendar ends as it would without such
\* records: with the same events, or raising where it would raise without
\* them.
C11_MissingCompetitor ==
  [][\A t \in Threads :
       /\ (AtRecord(t) /\ Moves(t) /\ MissingCompetitor(CurrentRecord(t)))
            => Skipped(t)
       /\ (pc[t] = "build" /\ pc'[t] = "store")
            => /\ AsIfNoneMissing(t) # Raise
               /\ Document(t)'.events = AsIfNoneMissing(t).events
       /\ (pc[t] = "build" /\ pc'[t] = "except") => AsIfNoneMissing(t) = Raise]_vars

\* A document was built from records one of which, dated inside the window,
\* has no home competitor, and it holds the event of another record.
C11_Witness ==
  \E t \in Threads :
    /\ HasDocument(t)
    /\ \E i \in 1..Len(events_by_id[t]) :
         LET ev == events_by_id[t][i].ev
         IN  /\ Parses(ev) /\ InsideWindow(ev, today[t])
             /\ MissingCompetitor(ev)
             /\ \A k \in 1..Len(ev.competitions[1].competitors) :
                  ev.competitions[1].competitors[k].homeAway # "home"
    /\ Len(Document(t).events) >= 1

\* The display name of the first competitor of the record tagged with role.
NameOf(ev, role) ==
  LET cs == ev.competitions[1].competitors
      first == CHOOSE i \in 1..Len(cs) :
                 /\ cs[i].homeAway = role
                 /\ \A j \in 1..(i - 1) : cs[j].homeAway # role
  IN  cs[first].team[1]

\* The default duration of a game of league l, in minutes: 3h and 2.5h.
DurationOf(l) == IF l = "nfl" THEN 3 * 60 ELSE 2 * 60 + 30

\* Event e is the Calendar Event of record ev under league l: summary
\* "A @ H", UID "p-g@sports", start s, end s + d.
IsEventOf(e, ev, l) ==
  /\ e.summary = <<NameOf(ev, "away"), "@", NameOf(ev, "home")>>
  /\ e.uid = UidOf(l, ev.id[1])
  /\ e.dtstart = UtcStart(ev)
  /\ e.dtend = UtcStart(ev) + DurationOf(l)

\* C12 (event content): a translation step that emits an event emits exactly
\* one, for a record none of the skip conditions applies to, with summary
\* "A @ H", UID "p-g@sports", start s and end s + d; and every event of a
\* document is the event of one of the retained records.
C12_EventContent ==
  [][\A t \in Threads :
       /\ (AtRecord(t) /\ Moves(t) /\ cal'[t] # cal[t])
            => /\ Translatable(CurrentRecord(t), today[t])
               /\ AddedOne(t)
               /\ IsEventOf(cal'[t][Len(cal'[t])], CurrentRecord(t), league[t])
       /\ HasDocument(t)'
            => \A i \in 1..Len(Document(t)'.events) :
                 \E j \in 1..Len(events_by_id'[t]) :
                   /\ Translatable(events_by_id'[t][j].ev, today'[t])
                   /\ IsEventOf(Document(t)'.events[i], events_by_id'[t][j].ev,
                                league'[t])]_vars

\* The example of the spec: both listed teams' schedules hold game g1 at
\* 18:20Z, and the NFL document holds exactly one event, "Buffalo Bills @
\* Kansas City Chiefs", UID nfl-g1@sports, from 18:20Z to 21:20Z.
C12_Witness ==
  \E t \in Threads :
    /\ HasDocument(t)
    /\ league[t] = "nfl"
    /\ ListedTeams(world) = {"T1", "T2"}
    /\ "g1" \in GameIds(world, "T1") \cap GameIds(world, "T2")
    /\ Len(Document(t).events) = 1
    /\ Document(t).events[1].summary = <<"Buffalo Bills", "@", "Kansas City Chiefs">>
    /\ Document(t).events[1].uid = <<"nfl", "g1", "@sports">>
    /\ Document(t).events[1].dtstart = (Day0 + 1) * MinutesPerDay + 18 * 60 + 20
    /\ Document(t).events[1].dtend = (Day0 + 1) * MinutesPerDay + 21 * 60 + 20

\* ------------------------------------------------------------ cache claims
\* The refresh of thread t stores its timestamp into the entry of league l.
Stamps(t, l) == pc[t] = "stamp" /\ pc'[t] = "returned_new" /\ league[t] = l

\* The retry discipline of get_cached_calendar on a STALE entry: the clock
\* does not run backwards and an entry that is STALE stays STALE until a
\* refresh stamps it; a call on a STALE entry goes to the refresh and issues
\* one listing request; a failed refresh leaves the entry as it is.
RetryDiscipline ==
  /\ clock' >= clock
  /\ \A l \in Leagues :
       STALE(CACHE[l], clock)
         => (STALE(CACHE'[l], clock') \/ \E t \in Threads : Stamps(t, l))
  /\ \A t \in Threads :
       LET e == CACHE[league[t]]
       IN  /\ (pc[t] = "check" /\ Moves(t) /\ STALE(e, now[t])) => pc'[t] = "fetch"
           /\ (pc[t] = "fetch" /\ Moves(t)) => nList'[t] = 1
           /\ nList'[t] <= 1
           /\ (pc[t] = "except" /\ Moves(t) /\ STALE(e, now[t]))
                => (CACHE' = CACHE /\ pc'[t] = "returned_stale")
           /\ (pc[t] = "stamp" /\ Moves(t)) => FRESH(CACHE'[league[t]], now[t])

\* C13 (retry on next call), as claimed: the retry discipline holds, and a
\* refresh of a STALE entry whose listing request the upstream answered is
\* not a failed refresh: it goes on to store and moves the entry to FRESH.
C13_RetryOnNextCall ==
  [][/\ RetryDiscipline
     /\ \A t \in Threads :
          (pc[t] \in {"teams", "build"} /\ Moves(t)
             /\ STALE(CACHE[league[t]], now[t]))
            => pc'[t] \in {"teams", "build", "store"}]_vars

\* C13 without the step from an answering upstream to a successful refresh.
C13_RetryWhileRefreshFails ==
  [][RetryDiscipline]_vars

\* Positions of a refresh in flight: from the listing request to the store.
Refreshing == {"fetch", "teams", "build", "store", "stamp"}

\* C14 (uncoordinated concurrent refresh): whatever the other calls are
\* doing, a call at the freshness test whose entry is not FRESH can go on to
\* the refresh, and a refresh in flight can take its next step: no call ever
\* waits for another. (That two refreshes of one league are in flight at
\* once is the state C14_Witness describes.)
C14_UncoordinatedRefresh ==
  \A t \in Threads :
    /\ (pc[t] = "check" /\ ~FRESH(CACHE[league[t]], now[t]))
         => ENABLED (Check(t) /\ pc'[t] = "fetch")
    /\ pc[t] \in Refreshing => ENABLED Step(t)

\* Two calls for the same league both found the entry STALE, both issued
\* their listing and schedule requests and both hold a document to store.
C14_Witness ==
  \E t, u \in Threads :
    /\ t # u
    /\ league[t] = league[u]
    /\ pc[t] = "store" /\ pc[u] = "store"
    /\ STALE(CACHE[league[t]], now[t]) /\ STALE(CACHE[league[u]], now[u])
    /\ nList[t] = 1 /\ nList[u] = 1
    /\ nSched[t] = 1 /\ nSched[u] = 1

\* The record has a home and an away competitor of which one carries no
\* team display name.
MissingName(ev) == HasHomeAndAway(ev) /\ ~Resolvable(ev)

\* C15 (translator totality), as claimed: translating a record adds no event
\* or exactly one and goes on with the next record, whatever the record is;
\* a record with an empty competitions list, or with a competitor that has
\* no display name, adds none.
C15_TranslatorTotality ==
  [][\A t \in Threads :
       (AtRecord(t) /\ Moves(t))
         => /\ Skipped(t) \/ AddedOne(t)
            /\ (CurrentRecord(t).competitions = <<>> \/ MissingName(CurrentRecord(t)))
                 => Skipped(t)]_vars

\* C15 restricted to what the loop body handles: the translation raises out
\* of the batch exactly on a record, dated inside the window, that has no
\* competition or a home/away competitor without a display name; on every
\* other record it adds no event or exactly one.
C15_TotalityExceptUnhandled ==
  [][\A t \in Threads :
       (AtRecord(t) /\ Moves(t))
         => LET ev == CurrentRecord(t)
                unhandled == /\ Parses(ev) /\ InsideWindow(ev, today[t])
                             /\ (ev.competitions = <<>> \/ MissingName(ev))
            IN  /\ unhandled => pc'[t] = "except"
                /\ ~unhandled => (Skipped(t) \/ AddedOne(t))]_vars

\* C16 (league isolation): under any interleaving, the entry of a league
\* changes only in a store step (line 175 or 176) of a call for that league;
\* every other step of every call, for whatever league and on whatever path
\* (hit, successful refresh, failed refresh), leaves it as it is.
C16_LeagueIsolation ==
  [][\A l \in Leagues :
       CACHE'[l] # CACHE[l]
         => \E t \in Threads :
              /\ league[t] = l /\ league'[t] = l
              /\ pc[t] \in {"store", "stamp"}
              /\ Moves(t)
              /\ \A k \in Leagues \ {l} : CACHE'[k] = CACHE[k]]_vars

\* A call for nba has refreshed its entry while the nfl entry still holds
\* the NFL document and the earlier timestamp of its own refresh.
C16_Witness ==
  \E t \in Threads :
    /\ pc[t] = "returned_new"
    /\ league[t] = "nba"
    /\ CACHE["nba"].last_fetch = Some(now[t])
    /\ Populated(CACHE["nfl"])
    /\ CACHE["nfl"].last_fetch[1] < now[t]
    /\ CACHE["nfl"].ical_bytes[1].prodid = LeagueConfig("nfl").prodid

\* ------------------------------------------------------- aggregator claims
\* The positions among the first n listing entries of the teams whose
\* schedule holds a record of game g.
Contributors(w, g, n) ==
  { j \in 1..n : /\ w.listing.teams[j].id # None
                 /\ g \in GameIds(w, w.listing.teams[j].id[1]) }

\* The games seen in the schedules of the first n listing entries.
SeenGames(w, n) ==
  UNION { GameIds(w, w.listing.teams[j].id[1]) :
            j \in { k \in 1..n : w.listing.teams[k].id # None } }

\* The largest element of a non-empty set of numbers.
Last(S) == CHOOSE x \in S : \A y \in S : y <= x

\* The record of game g seen last among the first n listing entries: the
\* last one in the schedule of the last team that has one.
LastSeen(w, g, n) ==
  LET evs == w[w.listing.teams[Last(Contributors(w, g, n))].id[1]].events
  IN  evs[Last({ i \in 1..Len(evs) : evs[i].id = Some(g) })]

\* The listing entries thread t has been through.
TeamsDone(t) == IF pc[t] = "teams" THEN ti[t] - 1 ELSE Len(teams[t])

\* C17 (last-seen-wins): during and after the loop over the teams,
\* events_by_id holds one record for each game identifier seen so far and no
\* other; the record it holds is the one seen last in team-list iteration
\* order; and no record without an identifier is held.
C17_LastSeenWins ==
  \A t \in Threads :
    (pc[t] \in {"teams", "build"} \/ HasDocument(t))
      => LET m == events_by_id[t]
             n == TeamsDone(t)
         IN  /\ { m[k].id : k \in 1..Len(m) } = SeenGames(world, n)
             /\ \A j, k \in 1..Len(m) : m[j].id = m[k].id => j = k
             /\ \A k \in 1..Len(m) :
                  /\ m[k].ev.id = Some(m[k].id)
                  /\ m[k].ev = LastSeen(world, m[k].id, n)

\* Team T2 is listed before team T1, their schedules hold different records
\* of game g1, and the record retained for translation is T1's.
C17_Witness ==
  \E t \in Threads :
    /\ pc[t] = "build"
    /\ ListedTeams(world) = {"T1", "T2"}
    /\ world.listing.teams[1].id = Some("T2")
    /\ "g1" \in GameIds(world, "T1") \cap GameIds(world, "T2")
    /\ \A i \in 1..Len(world.T2.events) : Retained(t, "g1") # world.T2.events[i]
    /\ \E i \in 1..Len(world.T1.events) : Retained(t, "g1") = world.T1.events[i]

\* ------------------------------------------------------ concurrency claims
\* Both fields of the entry are null or neither is.
Consistent(e) == (e.last_fetch = None) <=> (e.ical_bytes = None)

\* The positions at which a call reads its entry: lines 165-167, 171 and
\* 182-184.
Reading == {"check", "fresh", "except"}

\* C18 (entry consistency), as claimed: under any interleaving, a call that
\* reads its league's entry never finds it half-updated: last_fetch is null
\* if and only if ical_bytes is null.
C18_EntryConsistency ==
  \A t \in Threads : pc[t] \in Reading => Consistent(CACHE[league[t]])

\* The half of C18 the order of lines 175 and 176 does give: an entry with a
\* timestamp has bytes.
C18_StampedEntryHasBytes ==
  \A l \in Leagues : CACHE[l].last_fetch # None => CACHE[l].ical_bytes # None

\* C19 (monotonic refresh), as claimed: under any interleaving, the
\* last_fetch of an entry never decreases: a refresh whose call started
\* earlier never overwrites the timestamp written by one whose call started
\* later.
C19_MonotonicRefresh ==
  [][\A l \in Leagues :
       (CACHE[l].last_fetch # None /\ CACHE'[l].last_fetch # None)
         => CACHE'[l].last_fetch[1] >= CACHE[l].last_fetch[1]]_vars

====
